---- MODULE Spec2Model ----
(***************************************************************************)
(* xmodem-fs: XMODEM file transfer over a serial link.                     *)
(*                                                                         *)
(* The module models                                                       *)
(*   - the two commands of src/main.py, cmd_send and cmd_recv, step by     *)
(*     step (buffer draining, wake-up writes, retry_count, the call of the *)
(*     protocol engine, the exit status and the handling of the output     *)
(*     file);                                                              *)
(*   - the protocol engine the commands call (modem.send / modem.recv).    *)
(*     Its code is not part of src/; it is modelled from spec.md sections  *)
(*     4.1 to 4.5;                                                         *)
(*   - the serial link between the two commands, which may lose a          *)
(*     message, flip a payload bit, or deliver stray bytes and CAN bytes;  *)
(*   - the packet analyzer of src/packet_analyzer.py, as operators.        *)
(*                                                                         *)
(* Timing is abstracted as follows: a blocking read times out only when    *)
(* nothing is in flight toward the reader and the peer is itself blocked   *)
(* in a read or has exited, i.e. the timeouts are long compared to the     *)
(* peer's response time; and while both peers are blocked on a silent link *)
(* their timers, which have the same length, fire in turn.  Every write    *)
(* call is one message on the link and a read returns one whole message.   *)
(* What is written to a port that is not open, or to a full buffer, is    *)
(* lost.                                                                   *)
(***************************************************************************)
EXTENDS Integers, Sequences, FiniteSets, TLC

(***************************************************************************)
(* Bounds of the model.                                                    *)
(***************************************************************************)
\* number of payload bytes of a block in the transfer model (the program
\* uses 128; the transfer model is scaled down, the analyzer is not)
blockSize == 2
\* longest source file, in bytes, of the specification Spec
MaxLen == 3
\* capacity, in messages, of each direction of the link
MaxQueue == 3
\* number of faults the link injects in one run
MaxFaults == 1
\* number of CAN bytes that reach the commands in one run of SpecCancel
MaxCancels == 2
\* the floor of retry_count, `max(args.retry, 30)`: 30 in the program, scaled
\* down here together with the values of --retry the commands are run with
\* (the program's default, 16, lies below the floor, as MinRetry - 1 does)
MinRetry == 4

(***************************************************************************)
(* Control-byte alphabet.                                                  *)
(***************************************************************************)
SOH == 1
EOT == 4
STX == 2
ACK == 6
NAK == 21
CAN == 24
CRC == 67
PAD == 26
\* the bytes of the wake-up writes of cmd_send: CR, LF, Ctrl+C
CR == 13
LF == 10
ETX == 3

\* number of passes of the drain loop of cmd_send
DrainPasses == 3
\* classic value of maxConsecutiveCancel
maxConsecutiveCancel == 2

Max(a, b) == IF a >= b THEN a ELSE b

(***************************************************************************)
(* Bit operations on naturals.  The operands of the recursive operators    *)
(* are bound as values (x \in {a}) before they are used, so that each is   *)
(* evaluated once.                                                         *)
(***************************************************************************)
RECURSIVE Xor(_, _)
Xor(a, b) ==
    CHOOSE r \in { IF x = 0 THEN y
                   ELSE IF y = 0 THEN x
                   ELSE (((x % 2) + (y % 2)) % 2) + 2 * Xor(x \div 2, y \div 2)
                   : x \in {a}, y \in {b} } : TRUE

RECURSIVE Pow2(_)
Pow2(k) == IF k = 0 THEN 1 ELSE 2 * Pow2(k - 1)

\* sum(s): the sum of the first half of s plus the sum of the rest
RECURSIVE SumSeq(_)
SumSeq(s) ==
    CHOOSE r \in { IF d = <<>> THEN 0
                   ELSE IF Len(d) = 1 THEN d[1]
                   ELSE SumSeq(SubSeq(d, 1, Len(d) \div 2))
                        + SumSeq(SubSeq(d, (Len(d) \div 2) + 1, Len(d)))
                   : d \in {s} } : TRUE

(***************************************************************************)
(* calculate_crc16 of src/packet_analyzer.py: bit-serial CRC-16, one byte  *)
(* at a time, eight shifts per byte.                                       *)
(***************************************************************************)
\* one pass of `for _ in range(8)`
CrcShiftOnce(crc) ==
    (IF (crc \div 32768) % 2 = 1 THEN Xor(crc * 2, 4129) ELSE crc * 2) % 65536

RECURSIVE CrcShift(_, _)
CrcShift(crc, n) ==
    CHOOSE r \in { IF n = 0 THEN c ELSE CrcShift(CrcShiftOnce(c), n - 1)
                   : c \in {crc} } : TRUE

\* the loop `for byte in data` entered with the value crc: one pass for one
\* byte; for more bytes, the loop over the first half of them and then, from
\* the value it leaves, over the rest
RECURSIVE calculate_crc16_from(_, _)
calculate_crc16_from(crc, data) ==
    CHOOSE r \in { IF d = <<>> THEN c
                   ELSE IF Len(d) = 1 THEN CrcShift(Xor(c, d[1] * 256), 8)
                   ELSE calculate_crc16_from(
                            calculate_crc16_from(c, SubSeq(d, 1, Len(d) \div 2)),
                            SubSeq(d, (Len(d) \div 2) + 1, Len(d)))
                   : c \in {crc}, d \in {data} } : TRUE

calculate_crc16(data) == calculate_crc16_from(0, data)

\* 8-bit additive checksum: sum(data) & 0xff
Checksum8(data) == SumSeq(data) % 256

(***************************************************************************)
(* Packet codec of the protocol engine (spec.md 4.1).                      *)
(***************************************************************************)
Modes == {"checksum", "crc16"}

trailerLength(mode) == IF mode = "crc16" THEN 2 ELSE 1

Trailer(payload, mode) ==
    IF mode = "crc16"
    THEN << calculate_crc16(payload) \div 256, calculate_crc16(payload) % 256 >>
    ELSE << Checksum8(payload) >>

\* encode(blockNumber, payload, mode) -> frame
encode(blockNumber, payload, mode) ==
    << SOH, blockNumber, 255 - blockNumber >> \o payload \o Trailer(payload, mode)

\* a decoder that does not compare the trailer
decodeSkipsIntegrity(frame, mode) ==
    IF Len(frame) < 1 \/ frame[1] # SOH
    THEN [ok |-> FALSE, err |-> "HeaderMismatch", blockNumber |-> 0, payload |-> <<>>]
    ELSE IF Len(frame) < 3 \/ frame[2] + frame[3] # 255
    THEN [ok |-> FALSE, err |-> "BlockNumberCorrupt", blockNumber |-> 0, payload |-> <<>>]
    ELSE IF Len(frame) # 3 + blockSize + (IF mode = "crc16" THEN 2 ELSE 1)
    THEN [ok |-> FALSE, err |-> "LengthMismatch", blockNumber |-> 0, payload |-> <<>>]
    ELSE [ok |-> TRUE, err |-> "none", blockNumber |-> frame[2],
          payload |-> SubSeq(frame, 4, 3 + blockSize)]

\* decode(frame, expectedBlockSize, mode): the four checks, in order
decode(frame, mode) ==
    IF Len(frame) < 1 \/ frame[1] # SOH
    THEN [ok |-> FALSE, err |-> "HeaderMismatch", blockNumber |-> 0, payload |-> <<>>]
    ELSE IF Len(frame) < 3 \/ frame[2] + frame[3] # 255
    THEN [ok |-> FALSE, err |-> "BlockNumberCorrupt", blockNumber |-> 0, payload |-> <<>>]
    ELSE IF Len(frame) # 3 + blockSize + trailerLength(mode)
    THEN [ok |-> FALSE, err |-> "LengthMismatch", blockNumber |-> 0, payload |-> <<>>]
    ELSE IF SubSeq(frame, 4 + blockSize, Len(frame))
              # Trailer(SubSeq(frame, 4, 3 + blockSize), mode)
    THEN [ok |-> FALSE, err |-> "IntegrityMismatch", blockNumber |-> 0, payload |-> <<>>]
    ELSE [ok |-> TRUE, err |-> "none", blockNumber |-> frame[2],
          payload |-> SubSeq(frame, 4, 3 + blockSize)]


(***************************************************************************)
(* State.                                                                  *)
(*   sargs, rargs  the parsed command lines of "send" and "recv"           *)
(*   snd           cmd_send and the sender state machine it runs           *)
(*   rcv           cmd_recv and the receiver state machine it runs         *)
(*   fs            the receiver's file system: args.out and args.out.part  *)
(*   toRecv        messages in flight from the sender to the receiver      *)
(*   toSend        messages in flight from the receiver to the sender      *)
(*   faultsLeft    number of faults the link may still inject              *)
(*   lastTimeout   the peer whose read timed out last while the link was   *)
(*                 silent                                                  *)
(*   an            the packet analyzer: the packet given and its report    *)
(***************************************************************************)
VARIABLES sargs, rargs, snd, rcv, fs, toRecv, toSend, faultsLeft, lastTimeout, an

vars == << sargs, rargs, snd, rcv, fs, toRecv, toSend, faultsLeft, lastTimeout, an >>

NoExit == 0 - 1

\* values of --retry the model runs the commands with
RetryArgs == {MinRetry - 1, MinRetry + 1}

\* the default of getc's timeout parameter, in seconds
GetcDefault == 1

\* the default of --timeout, in seconds
DefaultTimeout == 3

\* values of --timeout, in whole seconds
Timeouts == GetcDefault..DefaultTimeout

\* initial_timeout of cmd_send is max(args.timeout * 15, 30.0)
InitialTimeoutFactor == 15

MinInitialTimeout == 30

\* byte i of a source file: every position carries a different value
SrcByte(i) == (65 + 37 * i) % 256

SourceOfLen(n) == [i \in 1..n |-> SrcByte(i)]

\* a source file right-padded with the filler byte to whole blocks
Padded(data) ==
    data \o [i \in 1..((blockSize - (Len(data) % blockSize)) % blockSize) |-> PAD]

\* the content of args.out before the command, when the file exists
OldContent == << 7 >>

\* stray bytes the link may deliver
NoiseBytes == {CR}

SenderTerminal == {"Done", "Cancelled", "Failed"}
ReceiverTerminal == {"Done", "Cancelled", "Failed"}

\* a write of one message to one direction of the link
Put(q, m) == IF Len(q) < MaxQueue THEN Append(q, m) ELSE q

\* the serial port of a command is open from open_serial to ser.close();
\* what is written to a port that is not open is gone
SenderPortOpen == snd.pc \notin {"init", "exit"}

ReceiverPortOpen == rcv.pc \notin {"init", "exit"}

ToReceiver(w) == IF w = <<>> \/ ~ReceiverPortOpen THEN toRecv ELSE Put(toRecv, w[1])

ToSender(w) == IF w = <<>> \/ ~SenderPortOpen THEN toSend ELSE Put(toSend, w[1])

Remove(q, i) == SubSeq(q, 1, i - 1) \o SubSeq(q, i + 1, Len(q))

\* what analyze_xmodem_packet printed and how it ended: the format branch
\* taken, the bytes read as the trailer, the outcome of each test (the
\* integrity test is "skipped" when no trailer was compared), the error
\* lines and the exception raised
NoReport ==
    [format |-> "none", header_ok |-> FALSE, inversion_ok |-> FALSE,
     trailer |-> <<>>, integrity |-> "skipped", errors |-> {}, raised |-> "none"]

\* no value was returned by calculate_crc16
NoCrc == 0 - 1

\* the analyzer was not run
NoPacket == [packet |-> <<>>, done |-> FALSE, report |-> NoReport, crc |-> NoCrc]

\* last, prev, fails, acked, blocks and heads record what happened, for the
\* properties: the last event, the last byte read, the failures on the
\* current block, the blocks acknowledged, the blocks framed and the first
\* bytes of all messages written.
\* timeout is ser.timeout (0 while the port is not open); handshake is the
\* value ser.timeout had at the last read made while the sender waited for
\* the receiver's first 'C' or NAK (0 when there was none)
InitSnd ==
    [pc |-> "init", pass |-> 0, wake |-> 1, state |-> "Idle", fail |-> "none",
     blk |-> 0, pos |-> 0, buf |-> <<>>, retries |-> 0, cancel |-> 0,
     mode |-> "checksum", budget |-> 0, fails |-> 0, acked |-> 0, blocks |-> 0,
     heads |-> {}, exit |-> NoExit, last |-> "none", prev |-> 0,
     timeout |-> 0, handshake |-> 0]

\* last, prev, nak and fails record the last event, the first byte of the
\* last message read, whether a frame was refused with NAK and the failures
\* since the last block was accepted.
\* mode: the integrity mode the receiving engine asks for.  cmd_recv hands
\* args.crc to make_modem only, which does not use it
InitRcv(mode) ==
    [pc |-> "init", state |-> "Idle", fail |-> "none", blk |-> 0, retries |-> 0,
     cancel |-> 0, mode |-> mode, budget |-> 0, negotiated |-> FALSE,
     received |-> 0, exit |-> NoExit, last |-> "none", prev |-> 0, nak |-> FALSE,
     fails |-> 0]

InitFs(exists) ==
    [partExists |-> FALSE, part |-> <<>>, outExists |-> exists,
     out |-> IF exists THEN OldContent ELSE <<>>]

\* the commands run over a faulty link; the output file does not exist yet
Init ==
    /\ sargs \in [retry : {MinRetry - 1}, timeout : {GetcDefault},
                file : {SourceOfLen(n) : n \in 0..MaxLen}]
    /\ rargs = [retry |-> sargs.retry, force |-> FALSE]
    /\ snd = InitSnd
    /\ rcv \in {InitRcv(m) : m \in Modes}
    /\ fs = InitFs(FALSE)
    /\ toRecv = <<>>
    /\ toSend = <<>>
    /\ faultsLeft = MaxFaults
    /\ lastTimeout = "none"
    /\ an = NoPacket

\* the commands run with every command line over a link without faults
InitCmd ==
    /\ sargs \in [retry : RetryArgs, timeout : {GetcDefault},
                file : {SourceOfLen(n) : n \in 0..MaxLen}]
    /\ rargs \in [retry : RetryArgs, force : BOOLEAN]
    /\ snd = InitSnd
    /\ rcv \in {InitRcv(m) : m \in Modes}
    /\ fs \in {InitFs(e) : e \in BOOLEAN}
    /\ toRecv = <<>>
    /\ toSend = <<>>
    /\ faultsLeft = 0
    /\ lastTimeout = "none"
    /\ an = NoPacket

(***************************************************************************)
(* cmd_send, before the engine runs.                                       *)
(***************************************************************************)
\* wake-up writes with the header byte of a block among them
wake_sequences_with_header == << << CR, LF >>, << SOH >>, << CR, LF >> >>

\* the wake-up writes of cmd_send
wake_sequences == << << CR, LF >>, << ETX >>, << CR, LF >> >>

\* retry_count of cmd_send and of cmd_recv
retry_count(retry) == Max(retry, MinRetry)

\* initial_timeout of cmd_send
initial_timeout(timeout) == Max(timeout * InitialTimeoutFactor, MinInitialTimeout)

\* open_serial, make_modem, reset_input_buffer, reset_output_buffer, sleep
SendStart ==
    /\ snd.pc = "init"
    /\ snd' = [snd EXCEPT !.pc = "drain", !.pass = 0, !.timeout = sargs.timeout]
    /\ toSend' = <<>>
    /\ UNCHANGED << sargs, rargs, rcv, fs, toRecv, faultsLeft, lastTimeout, an >>

\* one test of `while ser.in_waiting > 0` inside `for _ in range(3)`
SendDrain ==
    /\ snd.pc = "drain"
    /\ IF toSend # <<>>
       THEN /\ toSend' = <<>>
            /\ UNCHANGED snd
       ELSE /\ snd' = [snd EXCEPT
                  !.pass = snd.pass + 1,
                  !.pc = IF snd.pass + 1 >= DrainPasses THEN "wake" ELSE "drain",
                  !.wake = 1]
            /\ UNCHANGED toSend
    /\ UNCHANGED << sargs, rargs, rcv, fs, toRecv, faultsLeft, lastTimeout, an >>

\* one pass of `for seq in wake_sequences`: ser.write(seq), flush, sleep,
\* then whatever came in is read and dropped
SendWake ==
    /\ snd.pc = "wake"
    /\ toRecv' = ToReceiver(<< wake_sequences[snd.wake] >>)
    /\ toSend' = <<>>
    /\ snd' = [snd EXCEPT
           !.wake = snd.wake + 1,
           !.pc = IF snd.wake + 1 > Len(wake_sequences) THEN "open" ELSE "wake",
           !.heads = snd.heads \cup {Head(wake_sequences[snd.wake])}]
    /\ UNCHANGED << sargs, rargs, rcv, fs, faultsLeft, lastTimeout, an >>

\* final buffer clear, open the file, retry_count, modem.send(...) is entered
SendOpen ==
    /\ snd.pc = "open"
    /\ toSend' = <<>>
    /\ snd' = [snd EXCEPT !.pc = "send", !.state = "AwaitNegotiation",
                          !.budget = retry_count(sargs.retry),
                          !.retries = retry_count(sargs.retry),
                          !.pos = 0, !.cancel = 0,
                          !.timeout = initial_timeout(sargs.timeout)]
    /\ UNCHANGED << sargs, rargs, rcv, fs, toRecv, faultsLeft, lastTimeout, an >>

(***************************************************************************)
(* Sender state machine (spec.md 4.4).  A handler maps the machine's       *)
(* record and the byte read to the new record and the messages written.    *)
(***************************************************************************)
Min(a, b) == IF a <= b THEN a ELSE b

\* SendBlock, or SendEot when no file data remains
SendBlock(s) ==
    IF s.pos < Len(sargs.file)
    THEN LET chunk == SubSeq(sargs.file, s.pos + 1,
                             Min(s.pos + blockSize, Len(sargs.file)))
             frame == encode(s.blk, Padded(chunk), s.mode)
         IN  [s |-> [s EXCEPT !.state = "AwaitAck", !.buf = frame,
                              !.pos = s.pos + Len(chunk), !.retries = s.budget,
                              !.fails = 0, !.blocks = s.blocks + 1,
                              !.heads = s.heads \cup {Head(frame)}],
              w |-> << frame >>]
    ELSE [s |-> [s EXCEPT !.state = "AwaitEotAck", !.buf = << EOT >>,
                          !.retries = s.budget, !.fails = 0,
                          !.heads = s.heads \cup {EOT}],
          w |-> << << EOT >> >>]

\* NAK or timeout: one retry is consumed; the same bytes are sent again
SenderRetry(s, reason) ==
    IF s.retries - 1 <= 0
    THEN [s |-> [s EXCEPT !.state = "Failed", !.fail = reason, !.retries = 0,
                          !.fails = s.fails + 1, !.last = "exhausted"],
          w |-> <<>>]
    ELSE [s |-> [s EXCEPT !.retries = s.retries - 1, !.fails = s.fails + 1,
                          !.last = "resend"],
          w |-> << s.buf >>]

\* a sender that takes the second CAN byte for one more failed attempt
SenderCancelledRetries(s) == SenderRetry(s, "RetryExhausted")

SenderCancelled(s) ==
    [s |-> [s EXCEPT !.state = "Cancelled", !.cancel = s.cancel + 1,
                     !.last = "cancelled"],
     w |-> <<>>]

SenderNoise(s) == [s |-> [s EXCEPT !.cancel = 0, !.last = "noise"], w |-> <<>>]

AwaitNegotiation(s, b) ==
    IF b = CRC \/ b = NAK
    THEN SendBlock([s EXCEPT !.mode = IF b = CRC THEN "crc16" ELSE "checksum",
                             !.blk = 1, !.cancel = 0, !.last = "negotiated"])
    ELSE IF b = CAN
    THEN IF s.cancel + 1 >= maxConsecutiveCancel
         THEN SenderCancelled(s)
         ELSE [s |-> [s EXCEPT !.cancel = s.cancel + 1, !.last = "can"], w |-> <<>>]
    ELSE SenderNoise(s)

\* a sender whose block number does not wrap
AwaitAckCountsOn(s, b) ==
    IF b = ACK
    THEN SendBlock([s EXCEPT !.blk = s.blk + 1, !.acked = s.acked + 1,
                             !.cancel = 0, !.last = "ack"])
    ELSE IF b = NAK
    THEN SenderRetry([s EXCEPT !.cancel = 0], "RetryExhausted")
    ELSE IF b = CAN
    THEN IF s.cancel + 1 >= maxConsecutiveCancel
         THEN SenderCancelled(s)
         ELSE SenderRetry([s EXCEPT !.cancel = s.cancel + 1], "RetryExhausted")
    ELSE SenderNoise(s)

AwaitAck(s, b) ==
    IF b = ACK
    THEN SendBlock([s EXCEPT !.blk = (s.blk + 1) % 256, !.acked = s.acked + 1,
                             !.cancel = 0, !.last = "ack"])
    ELSE IF b = NAK
    THEN SenderRetry([s EXCEPT !.cancel = 0], "RetryExhausted")
    ELSE IF b = CAN
    THEN IF s.cancel + 1 >= maxConsecutiveCancel
         THEN SenderCancelled(s)
         ELSE SenderRetry([s EXCEPT !.cancel = s.cancel + 1], "RetryExhausted")
    ELSE SenderNoise(s)

AwaitEotAck(s, b) ==
    IF b = ACK
    THEN [s |-> [s EXCEPT !.state = "Done", !.cancel = 0, !.last = "eot_ack"],
          w |-> <<>>]
    ELSE IF b = NAK
    THEN SenderRetry([s EXCEPT !.cancel = 0], "EotNotAcknowledged")
    ELSE IF b = CAN
    THEN IF s.cancel + 1 >= maxConsecutiveCancel
         THEN SenderCancelled(s)
         ELSE SenderRetry([s EXCEPT !.cancel = s.cancel + 1], "EotNotAcknowledged")
    ELSE SenderNoise(s)

SenderOnByte(s, b) ==
    IF s.state = "AwaitNegotiation" THEN AwaitNegotiation(s, b)
    ELSE IF s.state = "AwaitAck" THEN AwaitAck(s, b)
    ELSE AwaitEotAck(s, b)

SenderOnTimeout(s) ==
    IF s.state = "AwaitNegotiation"
    THEN [s |-> [s EXCEPT !.state = "Failed", !.fail = "HandshakeTimeout",
                          !.last = "timeout"],
          w |-> <<>>]
    ELSE IF s.state = "AwaitAck" THEN SenderRetry(s, "RetryExhausted")
    ELSE SenderRetry(s, "EotNotAcknowledged")

SenderWaiting ==
    snd.pc = "send" /\ snd.state \in {"AwaitNegotiation", "AwaitAck", "AwaitEotAck"}

ReceiverWaiting == rcv.pc = "recv" /\ rcv.state = "AwaitFrame"

\* the peer will write nothing until it has read something
ReceiverQuiet ==
    \/ rcv.pc = "exit"
    \/ ReceiverWaiting /\ toRecv = <<>>

SenderQuiet ==
    \/ snd.pc = "exit"
    \/ SenderWaiting /\ toSend = <<>>

\* the timeouts the engine can hand to getc: while it waits for the first
\* 'C' or NAK, none (getc's default applies) or the timeout modem.send was
\* called with; afterwards the timeout modem.send was called with.
\* initial_timeout is not among what cmd_send hands to modem.send
EngineTimeouts(s) ==
    IF s.state = "AwaitNegotiation" THEN {GetcDefault, sargs.timeout}
    ELSE {sargs.timeout}

\* getc of make_modem: `ser.timeout = timeout`, then ser.read(size)
getc(s, timeout) ==
    [s EXCEPT !.timeout = timeout,
              !.handshake = IF s.state = "AwaitNegotiation" THEN timeout
                            ELSE s.handshake]

\* the sender reads one byte
SenderRead ==
    /\ SenderWaiting
    /\ toSend # <<>>
    /\ \E t \in EngineTimeouts(snd) :
         LET r == SenderOnByte(getc(snd, t), Head(toSend)[1])
         IN  /\ snd' = [r.s EXCEPT !.prev = Head(toSend)[1]]
             /\ toRecv' = ToReceiver(r.w)
    /\ toSend' = Tail(toSend)
    /\ lastTimeout' = "none"
    /\ UNCHANGED << sargs, rargs, rcv, fs, faultsLeft, an >>

\* the sender's read returns nothing
SenderTimeout ==
    /\ SenderWaiting
    /\ toSend = <<>>
    /\ ReceiverQuiet
    /\ lastTimeout # "sender" \/ ~ReceiverWaiting
    /\ \E t \in EngineTimeouts(snd) :
         LET r == SenderOnTimeout(getc(snd, t))
         IN  /\ snd' = r.s
             /\ toRecv' = ToReceiver(r.w)
    /\ lastTimeout' = "sender"
    /\ UNCHANGED << sargs, rargs, rcv, fs, toSend, faultsLeft, an >>

\* a command that exits with status 0 whatever the engine returned
SendExitStatusAlwaysZero(ok) == 0

\* exit status of cmd_send for the engine's result
SendExitStatus(ok) == IF ~ok THEN 2 ELSE 0

\* modem.send returned: `if not ok: sys.exit(2)`, else "Sent ..."; the port
\* is closed
SendExit ==
    /\ snd.pc = "send"
    /\ snd.state \in SenderTerminal
    /\ snd' = [snd EXCEPT !.pc = "exit",
                          !.exit = SendExitStatus(snd.state = "Done")]
    /\ toSend' = <<>>
    /\ UNCHANGED << sargs, rargs, rcv, fs, toRecv, faultsLeft, lastTimeout, an >>

(***************************************************************************)
(* Receiver state machine (spec.md 4.5).  A handler maps the machine's     *)
(* record, the file system and the message read to the new record, the new *)
(* file system and the messages written.                                   *)
(***************************************************************************)
\* the probe byte of a mode
Probe(mode) == IF mode = "crc16" THEN CRC ELSE NAK

\* the engine writes to the stream it was given, the file object of
\* args.out + ".part"; write_chunk of cmd_recv is handed to nobody, so
\* `received` is not touched
StreamWrite(r, f, data) ==
    [r |-> r, f |-> [f EXCEPT !.part = f.part \o data]]

\* NakAndRetry
NakAndRetry(r, f) ==
    IF r.retries - 1 <= 0
    THEN [r |-> [r EXCEPT !.state = "Failed", !.fail = "RetryExhausted",
                          !.retries = 0, !.cancel = 0, !.last = "exhausted",
                          !.fails = r.fails + 1],
          f |-> f, w |-> << << NAK >> >>]
    ELSE [r |-> [r EXCEPT !.retries = r.retries - 1, !.cancel = 0, !.last = "nak",
                          !.fails = r.fails + 1],
          f |-> f, w |-> << << NAK >> >>]

\* the block number of the block accepted last
PreviousBlock(r) == (r.blk + 255) % 256

\* a receiver that writes the payload of a duplicate
VerifyFrameRewrites(r, f, m) ==
    LET d == decode(m, r.mode)
    IN  IF d.ok /\ d.blockNumber = r.blk
        THEN [r |-> [r EXCEPT !.blk = (r.blk + 1) % 256, !.retries = r.budget,
                              !.negotiated = TRUE, !.cancel = 0, !.last = "accepted",
                              !.fails = 0],
              f |-> [f EXCEPT !.part = f.part \o d.payload], w |-> << << ACK >> >>]
        ELSE IF d.ok /\ r.negotiated /\ d.blockNumber = PreviousBlock(r)
        THEN [r |-> [r EXCEPT !.cancel = 0, !.last = "duplicate"],
              f |-> [f EXCEPT !.part = f.part \o d.payload], w |-> << << ACK >> >>]
        ELSE NakAndRetry(r, f)

\* VerifyFrame
VerifyFrame(r, f, m) ==
    LET d == decode(m, r.mode)
    IN  IF d.ok /\ d.blockNumber = r.blk
        THEN LET st == StreamWrite(r, f, d.payload)
             IN  [r |-> [st.r EXCEPT !.blk = (r.blk + 1) % 256,
                                    !.retries = r.budget, !.negotiated = TRUE,
                                    !.cancel = 0, !.last = "accepted",
                                    !.fails = 0],
                  f |-> st.f, w |-> << << ACK >> >>]
        ELSE IF d.ok /\ r.negotiated /\ d.blockNumber = PreviousBlock(r)
        THEN [r |-> [r EXCEPT !.cancel = 0, !.last = "duplicate"],
              f |-> f, w |-> << << ACK >> >>]
        ELSE NakAndRetry(r, f)

\* AwaitFrame, the read timed out; the probe is repeated until a first frame
\* was decoded
ReceiverOnTimeout(r, f) ==
    IF r.retries - 1 <= 0
    THEN [r |-> [r EXCEPT !.state = "Failed", !.fail = "NoData", !.retries = 0,
                          !.last = "exhausted", !.fails = r.fails + 1],
          f |-> f, w |-> <<>>]
    ELSE [r |-> [r EXCEPT !.retries = r.retries - 1, !.last = "timeout",
                          !.fails = r.fails + 1],
          f |-> f,
          w |-> IF r.negotiated THEN <<>> ELSE << << Probe(r.mode) >> >>]

\* AwaitFrame, a message was read.  Bytes that are fewer than a frame leave
\* the read of the rest of the frame to time out
AwaitFrame(r, f, m) ==
    IF m = << EOT >>
    THEN [r |-> [r EXCEPT !.state = "Done", !.cancel = 0, !.last = "eot"],
          f |-> f, w |-> << << ACK >> >>]
    ELSE IF m = << CAN >>
    THEN IF r.cancel + 1 >= maxConsecutiveCancel
         THEN [r |-> [r EXCEPT !.state = "Cancelled", !.cancel = r.cancel + 1,
                               !.last = "cancelled"],
               f |-> f, w |-> <<>>]
         ELSE [r |-> [r EXCEPT !.cancel = r.cancel + 1, !.last = "can"],
               f |-> f, w |-> <<>>]
    ELSE IF Len(m) < 3 + blockSize + trailerLength(r.mode)
    THEN ReceiverOnTimeout([r EXCEPT !.cancel = 0], f)
    ELSE VerifyFrame(r, f, m)

\* cmd_recv up to the engine's first read: overwrite check, open of the
\* ".part" file, retry_count, modem.recv(...) is entered and sends its probe
RecvStart ==
    /\ rcv.pc = "init"
    /\ IF fs.outExists /\ ~rargs.force
       THEN /\ rcv' = [rcv EXCEPT !.pc = "exit", !.exit = 3]
            /\ UNCHANGED << fs, toSend >>
       ELSE /\ fs' = [fs EXCEPT !.partExists = TRUE, !.part = <<>>]
            /\ rcv' = [rcv EXCEPT !.pc = "recv", !.state = "AwaitFrame",
                                  !.received = 0, !.blk = 1,
                                  !.budget = retry_count(rargs.retry),
                                  !.retries = retry_count(rargs.retry),
                                  !.last = "probe"]
            /\ toSend' = ToSender(<< << Probe(rcv.mode) >> >>)
    /\ UNCHANGED << sargs, rargs, snd, toRecv, faultsLeft, lastTimeout, an >>

\* the receiver reads one message
ReceiverRead ==
    /\ ReceiverWaiting
    /\ toRecv # <<>>
    /\ LET x == AwaitFrame(rcv, fs, Head(toRecv))
       IN  /\ rcv' = [x.r EXCEPT !.prev = Head(toRecv)[1],
                                 !.nak = rcv.nak \/ x.r.last = "nak"]
           /\ fs' = x.f
           /\ toSend' = ToSender(x.w)
    /\ toRecv' = Tail(toRecv)
    /\ lastTimeout' = "none"
    /\ UNCHANGED << sargs, rargs, snd, faultsLeft, an >>

\* the receiver's read returns nothing
ReceiverTimeout ==
    /\ ReceiverWaiting
    /\ toRecv = <<>>
    /\ SenderQuiet
    /\ lastTimeout # "receiver" \/ ~SenderWaiting
    /\ LET x == ReceiverOnTimeout(rcv, fs)
       IN  /\ rcv' = x.r
           /\ fs' = x.f
           /\ toSend' = ToSender(x.w)
    /\ lastTimeout' = "receiver"
    /\ UNCHANGED << sargs, rargs, snd, toRecv, faultsLeft, an >>

\* `if not ok or received == 0`
RecvFailed(ok, received) == ~ok \/ received = 0

\* modem.recv returned: flush, close, then remove the ".part" file and
\* sys.exit(4), or os.replace(tmp, args.out); the port is closed
RecvExit ==
    /\ rcv.pc = "recv"
    /\ rcv.state \in ReceiverTerminal
    /\ IF RecvFailed(rcv.state = "Done", rcv.received)
       THEN /\ fs' = [fs EXCEPT !.partExists = FALSE, !.part = <<>>]
            /\ rcv' = [rcv EXCEPT !.pc = "exit", !.exit = 4]
       ELSE /\ fs' = [fs EXCEPT !.partExists = FALSE, !.part = <<>>,
                                !.outExists = TRUE, !.out = fs.part]
            /\ rcv' = [rcv EXCEPT !.pc = "exit", !.exit = 0]
    /\ toRecv' = <<>>
    /\ UNCHANGED << sargs, rargs, snd, toSend, faultsLeft, lastTimeout, an >>

(***************************************************************************)
(* The link.                                                               *)
(***************************************************************************)
Fault == faultsLeft' = faultsLeft - 1

MayFault == faultsLeft > 0

\* byte j of message m with bit k flipped
FlipBit(m, j, k) == [m EXCEPT ![j] = Xor(m[j], Pow2(k))]

IsFrame(m) == Len(m) > 3 + blockSize /\ m[1] = SOH

\* a message to the receiver is lost
LoseToRecv ==
    /\ MayFault /\ Fault
    /\ \E i \in 1..Len(toRecv) : toRecv' = Remove(toRecv, i)
    /\ UNCHANGED << sargs, rargs, snd, rcv, fs, toSend, lastTimeout, an >>

\* a message to the sender is lost
LoseToSend ==
    /\ MayFault /\ Fault
    /\ \E i \in 1..Len(toSend) : toSend' = Remove(toSend, i)
    /\ UNCHANGED << sargs, rargs, snd, rcv, fs, toRecv, lastTimeout, an >>

\* one bit of the payload of a frame in flight is flipped
Corrupt ==
    /\ MayFault /\ Fault
    /\ \E i \in 1..Len(toRecv) :
          /\ IsFrame(toRecv[i])
          /\ toRecv[i] = snd.buf
          /\ \E j \in 4..(3 + blockSize), k \in 0..7 :
                toRecv' = [toRecv EXCEPT ![i] = FlipBit(toRecv[i], j, k)]
    /\ UNCHANGED << sargs, rargs, snd, rcv, fs, toSend, lastTimeout, an >>

\* a stray byte reaches the sender
NoiseToSend ==
    /\ MayFault /\ Fault
    /\ SenderPortOpen
    /\ toSend = <<>>
    /\ \E b \in NoiseBytes : toSend' = << << b >> >>
    /\ UNCHANGED << sargs, rargs, snd, rcv, fs, toRecv, lastTimeout, an >>

\* a CAN byte reaches the sender
CancelToSend ==
    /\ MayFault /\ Fault
    /\ SenderPortOpen
    /\ toSend = <<>>
    /\ toSend' = << << CAN >> >>
    /\ UNCHANGED << sargs, rargs, snd, rcv, fs, toRecv, lastTimeout, an >>

\* a CAN byte reaches the receiver
CancelToRecv ==
    /\ MayFault /\ Fault
    /\ ReceiverPortOpen
    /\ toRecv = <<>>
    /\ toRecv' = << << CAN >> >>
    /\ UNCHANGED << sargs, rargs, snd, rcv, fs, toSend, lastTimeout, an >>

Sender ==
    \/ SendStart \/ SendDrain \/ SendWake \/ SendOpen
    \/ SenderRead \/ SenderTimeout \/ SendExit

Receiver == RecvStart \/ ReceiverRead \/ ReceiverTimeout \/ RecvExit

Link ==
    \/ LoseToRecv \/ LoseToSend \/ Corrupt
    \/ NoiseToSend \/ CancelToSend \/ CancelToRecv

Next == Sender \/ Receiver \/ Link

Spec == Init /\ [][Next]_vars

NextCmd == Sender \/ Receiver

SpecCmd == InitCmd /\ [][NextCmd]_vars

(***************************************************************************)
(* The commands run with every value of --timeout over a link without      *)
(* faults.                                                                 *)
(***************************************************************************)
InitTimeout ==
    /\ sargs \in [retry : {MinRetry - 1}, timeout : Timeouts,
                  file : {SourceOfLen(n) : n \in 0..MaxLen}]
    /\ rargs = [retry |-> sargs.retry, force |-> FALSE]
    /\ snd = InitSnd
    /\ rcv \in {InitRcv(m) : m \in Modes}
    /\ fs = InitFs(FALSE)
    /\ toRecv = <<>>
    /\ toSend = <<>>
    /\ faultsLeft = 0
    /\ lastTimeout = "none"
    /\ an = NoPacket

SpecTimeout == InitTimeout /\ [][NextCmd]_vars

(***************************************************************************)
(* The commands next to a peer, or a user at its terminal, that sends CAN  *)
(* bytes.                                                                  *)
(***************************************************************************)
InitCancel ==
    /\ sargs \in [retry : {MinRetry - 1}, timeout : {GetcDefault},
                file : {SourceOfLen(n) : n \in 0..MaxLen}]
    /\ rargs = [retry |-> sargs.retry, force |-> FALSE]
    /\ snd = InitSnd
    /\ rcv \in {InitRcv(m) : m \in Modes}
    /\ fs = InitFs(FALSE)
    /\ toRecv = <<>>
    /\ toSend = <<>>
    /\ faultsLeft = MaxCancels
    /\ lastTimeout = "none"
    /\ an = NoPacket

NextCancel == Sender \/ Receiver \/ CancelToSend \/ CancelToRecv

SpecCancel == InitCancel /\ [][NextCancel]_vars

(***************************************************************************)
(* The transfer of a file of more than 255 blocks.                         *)
(***************************************************************************)
\* number of blocks of the long file
WrapBlocks == 257

InitWrap ==
    /\ sargs = [retry |-> MinRetry - 1, timeout |-> GetcDefault,
               file |-> SourceOfLen(WrapBlocks * blockSize)]
    /\ rargs = [retry |-> sargs.retry, force |-> FALSE]
    /\ snd = InitSnd
    /\ rcv \in {InitRcv(m) : m \in Modes}
    /\ fs = InitFs(FALSE)
    /\ toRecv = <<>>
    /\ toSend = <<>>
    /\ faultsLeft = 1
    /\ lastTimeout = "none"
    /\ an = NoPacket

SpecWrap == InitWrap /\ [][Next]_vars

(***************************************************************************)
(* The commands next to a peer that keeps sending bytes while cmd_send     *)
(* prepares the transfer (a device that prints to its console), each       *)
(* command taking its steps as long as it can.                             *)
(***************************************************************************)
InitFair ==
    /\ sargs \in [retry : {MinRetry - 1}, timeout : {GetcDefault},
                file : {SourceOfLen(n) : n \in 0..MaxLen}]
    /\ rargs = [retry |-> sargs.retry, force |-> FALSE]
    /\ snd = InitSnd
    /\ rcv \in {InitRcv(m) : m \in Modes}
    /\ fs = InitFs(FALSE)
    /\ toRecv = <<>>
    /\ toSend = <<>>
    /\ faultsLeft = 0
    /\ lastTimeout = "none"
    /\ an = NoPacket

\* a byte arrives in the sender's input buffer before modem.send is called
StaleByte ==
    /\ snd.pc \in {"drain", "wake", "open"}
    /\ toSend = <<>>
    /\ \E b \in NoiseBytes : toSend' = << << b >> >>
    /\ UNCHANGED << sargs, rargs, snd, rcv, fs, toRecv, faultsLeft, lastTimeout, an >>

NextFair == Sender \/ Receiver \/ StaleByte

FairSpec ==
    /\ InitFair
    /\ [][NextFair]_vars
    /\ WF_vars(Sender)
    /\ WF_vars(Receiver)

(***************************************************************************)
(* analyze_xmodem_packet of src/packet_analyzer.py, on the bytes of the     *)
(* packet (index i of the program is index i + 1 here).                    *)
(***************************************************************************)
\* `if len(packet) < 4`
ShortLength == 4
\* `if len(packet) >= 131`, `data = packet[3:131]`, `packet[131]`
DataEnd == 131
\* `if len(packet) == 132:  # CRC mode`
CrcModeLength == 132
\* `elif len(packet) == 133:  # Checksum mode`
ChecksumModeLength == 133

\* packet[a:b] of the program
Slice(packet, a, b) == SubSeq(packet, a + 1, Min(b, Len(packet)))

\* `if block_inv != (255 - block_num)`
inversion_ok(block_num, block_inv) == block_inv = 255 - block_num

analyze_xmodem_packet(packet) ==
    IF Len(packet) < ShortLength
    THEN [NoReport EXCEPT !.format = "too short", !.errors = {"Packet too short"}]
    ELSE
    LET soh == packet[1]
        block_num == packet[2]
        block_inv == packet[3]
        head == [NoReport EXCEPT
                    !.header_ok = (soh = SOH),
                    !.inversion_ok = inversion_ok(block_num, block_inv),
                    !.errors = (IF soh = SOH THEN {} ELSE {"SOH"})
                        \cup (IF inversion_ok(block_num, block_inv) THEN {}
                              ELSE {"Block number inversion mismatch"})]
        data == Slice(packet, 3, DataEnd)
    IN  IF Len(packet) < DataEnd THEN head
        ELSE IF Len(packet) = CrcModeLength
        THEN LET crc_bytes == Slice(packet, DataEnd, DataEnd + 2)
             IN  IF Len(crc_bytes) < 2
                 THEN [head EXCEPT !.format = "crc16", !.trailer = crc_bytes,
                                   !.raised = "IndexError"]
                 ELSE LET crc == crc_bytes[1] * 256 + crc_bytes[2]
                      IN  [head EXCEPT
                             !.format = "crc16", !.trailer = crc_bytes,
                             !.integrity = IF crc = calculate_crc16(data)
                                           THEN "ok" ELSE "mismatch",
                             !.errors = head.errors \cup
                                 (IF crc = calculate_crc16(data) THEN {}
                                  ELSE {"CRC: MISMATCH"})]
        ELSE IF Len(packet) = ChecksumModeLength
        THEN LET checksum == packet[DataEnd + 1]
             IN  [head EXCEPT
                    !.format = "checksum", !.trailer = << checksum >>,
                    !.integrity = IF checksum = SumSeq(data) % 256
                                  THEN "ok" ELSE "mismatch",
                    !.errors = head.errors \cup
                        (IF checksum = SumSeq(data) % 256 THEN {}
                         ELSE {"Checksum: MISMATCH"})]
        ELSE [head EXCEPT !.format = "unknown",
                          !.errors = head.errors \cup {"Unknown packet format"}]

\* the analyzer runs on the packet it was given
Analyze ==
    /\ ~an.done
    /\ an.packet # <<>>
    /\ an' = [an EXCEPT !.done = TRUE, !.report = analyze_xmodem_packet(an.packet)]
    /\ UNCHANGED << sargs, rargs, snd, rcv, fs, toRecv, toSend, faultsLeft, lastTimeout >>

\* payload size of the frames given to the analyzer: 128-byte blocks
AnalyzerBlock == 128

\* two payloads of 128 bytes
AnalyzerPayloads ==
    { [i \in 1..AnalyzerBlock |-> (seed + 7 * i) % 256] : seed \in {0, 201} }

\* the frames of blocks 0, 1 and 255 in both modes
AnalyzerFrames ==
    { encode(b, p, m) : b \in {0, 1, 255}, p \in AnalyzerPayloads, m \in Modes }

\* each frame as it is, with one of its parts changed, cut or extended
AnalyzerPackets ==
    UNION { { f,
              [f EXCEPT ![1] = STX],
              [f EXCEPT ![3] = (f[3] + 1) % 256],
              [f EXCEPT ![Len(f)] = (f[Len(f)] + 1) % 256],
              [f EXCEPT ![5] = (f[5] + 1) % 256],
              SubSeq(f, 1, 3),
              SubSeq(f, 1, DataEnd - 1),
              SubSeq(f, 1, DataEnd),
              f \o << 0 >>, f \o << 0, 0 >> } : f \in AnalyzerFrames }

InitAnalyzer ==
    /\ sargs = [retry |-> MinRetry, timeout |-> GetcDefault, file |-> <<>>]
    /\ rargs = [retry |-> MinRetry, force |-> FALSE]
    /\ snd = InitSnd
    /\ rcv = InitRcv("checksum")
    /\ fs = InitFs(FALSE)
    /\ toRecv = <<>>
    /\ toSend = <<>>
    /\ faultsLeft = 0
    /\ lastTimeout = "none"
    /\ an \in { [packet |-> p, done |-> FALSE, report |-> NoReport, crc |-> NoCrc]
                 : p \in AnalyzerPackets }

NextAnalyzer == Analyze

SpecAnalyzer == InitAnalyzer /\ [][NextAnalyzer]_vars

(***************************************************************************)
(* calculate_crc16 applied to a byte sequence, and the analyzer run on it. *)
(***************************************************************************)
\* longest byte sequence drawn from CrcBytes
MaxCrcLen == 3

\* bytes with no bit, the lowest bit, the highest bit and every bit set
CrcBytes == {0, 1, 128, 255}

RECURSIVE SeqsOver(_, _)
SeqsOver(S, n) ==
    IF n = 0 THEN { <<>> }
    ELSE LET shorter == SeqsOver(S, n - 1)
         IN  shorter \cup { Append(q, b) : q \in { t \in shorter : Len(t) = n - 1 }, b \in S }

\* the ASCII digits "123456789", whose CRC-16/XMODEM is 0x31C3
CheckString == [i \in 1..9 |-> 48 + i]

CheckValue == 12739

\* the byte sequences calculate_crc16 is applied to
CrcInputs == SeqsOver(CrcBytes, MaxCrcLen) \cup {CheckString} \cup AnalyzerPackets

\* calculate_crc16(data) is called and returns
ComputeCrc ==
    /\ ~an.done
    /\ an' = [an EXCEPT !.done = TRUE, !.crc = calculate_crc16(an.packet)]
    /\ UNCHANGED << sargs, rargs, snd, rcv, fs, toRecv, toSend, faultsLeft, lastTimeout >>

InitCrc ==
    /\ sargs = [retry |-> MinRetry, timeout |-> GetcDefault, file |-> <<>>]
    /\ rargs = [retry |-> MinRetry, force |-> FALSE]
    /\ snd = InitSnd
    /\ rcv = InitRcv("checksum")
    /\ fs = InitFs(FALSE)
    /\ toRecv = <<>>
    /\ toSend = <<>>
    /\ faultsLeft = 0
    /\ lastTimeout = "none"
    /\ an \in { [packet |-> p, done |-> FALSE, report |-> NoReport, crc |-> NoCrc]
                 : p \in CrcInputs }

NextCrc == ComputeCrc \/ Analyze

SpecCrc == InitCrc /\ [][NextCrc]_vars

(***************************************************************************)
(* Reference CRC-16/XMODEM (spec.md 4.1): a 16-bit register, initially 0,  *)
(* into which the bits of the message are shifted one at a time, the most  *)
(* significant bit of each byte first; the polynomial 0x1021 is applied    *)
(* whenever the bit shifted out differs from the message bit; no final     *)
(* XOR.                                                                    *)
(***************************************************************************)
CrcPolynomial == 4129

\* bit k of a byte, bit 7 being the most significant
Bit(byte, k) == (byte \div Pow2(k)) % 2

ReferenceCrcBit(reg, bit) ==
    IF ((reg \div 32768) + bit) % 2 = 1
    THEN Xor((reg * 2) % 65536, CrcPolynomial)
    ELSE (reg * 2) % 65536

\* the k lowest bits of a byte, the highest of them first
RECURSIVE ReferenceCrcByte(_, _, _)
ReferenceCrcByte(reg, byte, k) ==
    CHOOSE r \in { IF k = 0 THEN c
                   ELSE ReferenceCrcByte(ReferenceCrcBit(c, Bit(byte, k - 1)), byte, k - 1)
                   : c \in {reg} } : TRUE

\* the register after the bytes of data, taken by halves
RECURSIVE ReferenceCrcFrom(_, _)
ReferenceCrcFrom(reg, data) ==
    CHOOSE r \in { IF d = <<>> THEN c
                   ELSE IF Len(d) = 1 THEN ReferenceCrcByte(c, d[1], 8)
                   ELSE ReferenceCrcFrom(
                            ReferenceCrcFrom(c, SubSeq(d, 1, Len(d) \div 2)),
                            SubSeq(d, (Len(d) \div 2) + 1, Len(d)))
                   : c \in {reg}, d \in {data} } : TRUE

ReferenceCrc(data) == ReferenceCrcFrom(0, data)

(***************************************************************************)
(* The commands over a link whose only fault is the corruption of frames,  *)
(* each command taking its steps as long as it can.                        *)
(***************************************************************************)
NextCorrupt == Sender \/ Receiver \/ Corrupt

SpecCorrupt ==
    /\ Init
    /\ [][NextCorrupt]_vars
    /\ WF_vars(Sender)
    /\ WF_vars(Receiver)

(***************************************************************************)
(* Properties.                                                             *)
(***************************************************************************)

\* C1: a send that ends in Done paired with a receive that ends in Done
\* leaves the receiver's output file equal to the source bytes followed only
\* by filler bytes up to a whole number of blocks
C1_RoundTrip ==
    (snd.state = "Done" /\ rcv.state = "Done" /\ rcv.pc = "exit")
        => (fs.outExists /\ fs.out = Padded(sargs.file))

\* the frame at the head of the receiver's queue repeats the block accepted last
DuplicateArrives ==
    /\ ReceiverWaiting
    /\ toRecv # <<>>
    /\ rcv.negotiated
    /\ Len(Head(toRecv)) = 3 + blockSize + trailerLength(rcv.mode)
    /\ Head(toRecv)[1] = SOH
    /\ Head(toRecv)[2] = PreviousBlock(rcv)
    /\ Head(toRecv)[3] = 255 - PreviousBlock(rcv)
    /\ SubSeq(Head(toRecv), 4 + blockSize, Len(Head(toRecv)))
          = Trailer(SubSeq(Head(toRecv), 4, 3 + blockSize), rcv.mode)

\* C2: the receiver answers a retransmission of the block it accepted last
\* with ACK, keeps its block number and writes nothing, so that its output
\* stream holds each block of the source once, in order
C2_DuplicateIdempotent ==
    /\ [][(DuplicateArrives /\ rcv' # rcv)
             => /\ toSend' = ToSender(<< << ACK >> >>)
                /\ rcv'.blk = rcv.blk
                /\ rcv'.state = "AwaitFrame"
                /\ fs' = fs]_vars
    /\ [](rcv.pc = "recv"
             => /\ Len(fs.part) <= Len(Padded(sargs.file))
                /\ fs.part = SubSeq(Padded(sargs.file), 1, Len(fs.part))
                /\ Len(fs.part) = blockSize * (rcv.blk - 1))

\* the sender sent block 1 again after the ACK was lost, and the receiver
\* answered the second copy
C2_Witness ==
    /\ rcv.last = "duplicate"
    /\ snd.fails > 0
    /\ fs.part = SubSeq(Padded(sargs.file), 1, blockSize)

\* C3: a machine that reads a CAN byte right after a CAN byte ends in
\* Cancelled and writes nothing more; Cancelled is never left, so Done is
\* never reached, and cmd_send reports the failure
C3_Cancellation ==
    /\ [][(SenderRead /\ snd.prev = CAN /\ Head(toSend)[1] = CAN /\ snd.cancel > 0)
             => (snd'.state = "Cancelled" /\ toRecv' = toRecv)]_vars
    /\ [][(ReceiverRead /\ rcv.prev = CAN /\ Head(toRecv) = << CAN >> /\ rcv.cancel > 0)
             => (rcv'.state = "Cancelled" /\ toSend' = toSend /\ fs' = fs)]_vars
    /\ [][(snd.state = "Cancelled" => snd'.state = "Cancelled")
          /\ (rcv.state = "Cancelled" => rcv'.state = "Cancelled")]_vars
    /\ [](snd.pc = "exit" /\ snd.state = "Cancelled" => snd.exit = 2)
    /\ [](rcv.pc = "exit" /\ rcv.state = "Cancelled" => rcv.exit = 4 /\ ~fs.outExists)

\* the sender read two CAN bytes in a row while it waited for an ACK
C3_Witness ==
    /\ snd.state = "Cancelled"
    /\ snd.cancel = maxConsecutiveCancel
    /\ snd.blocks > 0
    /\ snd.pc = "exit"

\* the frame at the head of the receiver's queue is the frame the sender
\* holds, with one payload byte changed
CorruptedArrives ==
    /\ ReceiverWaiting
    /\ toRecv # <<>>
    /\ IsFrame(snd.buf)
    /\ Len(Head(toRecv)) = Len(snd.buf)
    /\ \E j \in 4..(3 + blockSize) :
          /\ Head(toRecv)[j] # snd.buf[j]
          /\ \A i \in 1..Len(snd.buf) : i # j => Head(toRecv)[i] = snd.buf[i]

C5_HandshakeTimeout ==
    /\ [][(snd.state = "AwaitNegotiation" /\ toSend = <<>> /\ snd' # snd)
             => (snd'.state = "Failed" /\ snd'.fail = "HandshakeTimeout"
                 /\ toRecv' = toRecv)]_vars
    /\ [][(snd.state = "AwaitNegotiation" /\ snd'.state = "AwaitAck")
             => (toSend # <<>> /\ Head(toSend)[1] \in {CRC, NAK})]_vars
    /\ [](snd.fail = "HandshakeTimeout"
             => /\ snd.state = "Failed"
                /\ snd.blocks = 0
                /\ snd.heads \cap {SOH, STX} = {}
                /\ (snd.pc = "exit" => snd.exit = 2))

\* cmd_send gave up the handshake for a file that has blocks to send
C5_Witness ==
    /\ snd.pc = "exit"
    /\ snd.fail = "HandshakeTimeout"
    /\ snd.heads = {CR, ETX}
    /\ Len(sargs.file) > 0

\* C6: the sender state machine eventually reaches Done, Cancelled or
\* Failed, whatever arrives on the channel
C6_SenderTerminates == <>(snd.state \in SenderTerminal)

\* C7: the retry budget the engine runs with is the value of --retry, for
\* send and for recv
C7_BudgetIsConfigured ==
    /\ (snd.pc = "send" => snd.budget = sargs.retry)
    /\ (rcv.pc = "recv" => rcv.budget = rargs.retry)

\* C8: the sender's block number changes only when the handshake ends or an
\* ACK is read for the block sent, so no block is framed before the one
\* before it was acknowledged; a waiting sender has retries left, the sender
\* whose retries ran out is Failed with the failures counted up to the
\* budget, Failed is never left, and cmd_send then exits with status 2
C8_RetryExhaustionFatal ==
    /\ [][(snd'.blk # snd.blk)
             => \/ snd.pc = "open"
                \/ snd.state = "AwaitNegotiation"
                \/ (snd.state = "AwaitAck" /\ toSend # <<>>
                    /\ Head(toSend)[1] = ACK /\ snd'.blk = (snd.blk + 1) % 256)]_vars
    /\ [](snd.blocks <= snd.acked + 1)
    /\ [](SenderWaiting => snd.retries > 0)
    /\ [][(SenderWaiting /\ snd.state # "AwaitNegotiation"
              /\ snd'.fails >= snd.budget) => snd'.state = "Failed"]_vars
    /\ [](snd.fail \in {"RetryExhausted", "EotNotAcknowledged"}
             => (snd.state = "Failed" /\ snd.retries = 0 /\ snd.fails = snd.budget))
    /\ [][snd.state = "Failed" => snd'.state = "Failed"]_vars
    /\ [](snd.pc = "exit" /\ snd.state = "Failed" => snd.exit = 2)

\* cmd_send exited with status 2 after the retries of a block ran out
C8_Witness ==
    /\ snd.pc = "exit"
    /\ snd.fail = "RetryExhausted"
    /\ snd.blocks > 0
    /\ snd.exit = 2

\* C9: the analyzer takes a packet of 3 + 128 + 1 bytes for a checksum frame
\* and reads packet[131] as its trailer, takes a packet of 3 + 128 + 2 bytes
\* for a CRC frame and reads packet[131:133] as its trailer, and raises no
\* exception
C9_AnalyzerClassifies ==
    an.done =>
        /\ an.report.raised = "none"
        /\ Len(an.packet) = 3 + AnalyzerBlock + trailerLength("checksum")
              => /\ an.report.format = "checksum"
                 /\ an.report.trailer = << an.packet[DataEnd + 1] >>
        /\ Len(an.packet) = 3 + AnalyzerBlock + trailerLength("crc16")
              => /\ an.report.format = "crc16"
                 /\ an.report.trailer = SubSeq(an.packet, DataEnd + 1, DataEnd + 2)

\* the frame of block 0 that the sender holds is at the head of the queue of
\* a receiver that expects block 0
BlockZeroArrives ==
    /\ ReceiverWaiting
    /\ toRecv # <<>>
    /\ rcv.blk = 0
    /\ snd.blk = 0
    /\ IsFrame(snd.buf)
    /\ Head(toRecv) = snd.buf

\* C10: the k-th block the sender frames carries the number k modulo 256,
\* from 1 on (1..255, 0, 1, ...), and 255 minus that number, which the analyzer's inversion test
\* accepts; the receiver expecting block 0 after block 255 takes the frame
\* of block 0 as the next block: it appends its payload once and writes ACK
C10_BlockNumberWraps ==
    /\ [][snd'.blk # snd.blk => snd'.blk = (snd.blk + 1) % 256]_vars
    /\ [](snd.state = "AwaitAck" => snd.blk = snd.blocks % 256)
    /\ [](IsFrame(snd.buf)
             => /\ snd.buf[2] = snd.blk
                /\ snd.buf[2] \in 0..255
                /\ snd.buf[3] = 255 - snd.buf[2]
                /\ inversion_ok(snd.buf[2], snd.buf[3]))
    /\ [][(BlockZeroArrives /\ rcv' # rcv)
             => /\ rcv'.last = "accepted"
                /\ rcv'.blk = 1
                /\ fs'.part = fs.part \o SubSeq(snd.buf, 4, 3 + blockSize)
                /\ toSend' = ToSender(<< << ACK >> >>)]_vars
    /\ [](rcv.pc = "recv" => Len(fs.part) <= blockSize * snd.blocks)

\* the receiver accepted block 0 as the 256th block of the file
C10_Witness ==
    /\ rcv.last = "accepted"
    /\ rcv.blk = 1
    /\ snd.blocks = 256
    /\ fs.part = SubSeq(sargs.file, 1, 256 * blockSize)

\* C11: whenever the sender has read while waiting for the receiver's first
\* 'C' or NAK, the read timeout in effect on the port was initial_timeout,
\* max(15 * timeout, 30), which is greater than the per-block timeout; and
\* the per-block timeout is in effect on the port only after negotiation.
C11_InitialTimeoutInEffect ==
    /\ initial_timeout(sargs.timeout) > sargs.timeout
    /\ snd.handshake # 0 => snd.handshake = initial_timeout(sargs.timeout)
    /\ snd.pc = "send" /\ snd.timeout = sargs.timeout
           => snd.state # "AwaitNegotiation"

\* a packet that keeps the four frame rules for 128-byte blocks in one of
\* the two modes: marker, complement, length and trailer
WellFormedFrame(packet) ==
    /\ Len(packet) >= 3
    /\ packet[1] = SOH
    /\ packet[2] + packet[3] = 255
    /\ \E m \in Modes :
          /\ Len(packet) = 3 + AnalyzerBlock + trailerLength(m)
          /\ SubSeq(packet, 4 + AnalyzerBlock, Len(packet))
                = Trailer(SubSeq(packet, 4, 3 + AnalyzerBlock), m)

\* C12: the analyzer ends without an exception, reports at least one error
\* for every packet that breaks a frame rule and reports none for every
\* well-formed frame
C12_NoSilentTolerance ==
    an.done =>
        /\ an.report.raised = "none"
        /\ (an.report.errors = {}) <=> WellFormedFrame(an.packet)

\* calculate_crc16 returns the reference CRC-16/XMODEM of every byte
\* sequence, a value of 16 bits, 0 for the empty sequence and 0x31C3 for
\* "123456789"
CrcIsReference ==
    an.crc # NoCrc =>
        /\ an.crc = ReferenceCrc(an.packet)
        /\ an.crc \in 0..65535
        /\ an.packet = <<>> => an.crc = 0
        /\ an.packet = CheckString => an.crc = CheckValue

\* the analyzer, given a packet of the length of a CRC frame, compares
\* calculate_crc16 of the 128 payload bytes with the two trailer bytes read
\* most significant byte first
AnalyzerAppliesCrc ==
    (an.done /\ an.crc = NoCrc
       /\ Len(an.packet) = 3 + AnalyzerBlock + trailerLength("crc16")) =>
        /\ an.report.format = "crc16"
        /\ an.report.integrity =
              IF an.packet[DataEnd + 1] * 256 + an.packet[DataEnd + 2]
                    = calculate_crc16(SubSeq(an.packet, 4, 3 + AnalyzerBlock))
              THEN "ok" ELSE "mismatch"

\* C13: calculate_crc16 equals the reference bit-serial CRC-16/XMODEM
\* (polynomial 0x1021, initial value 0, no final XOR, most significant bit
\* first) for every byte sequence, its result lies in 0..65535 and is 0 for
\* the empty sequence, and the analyzer applies it to the 128 payload bytes
\* only and compares it with the trailer read most significant byte first.
C13_CrcMatchesReference == CrcIsReference /\ AnalyzerAppliesCrc

\* args.out is what it was before the step
OutputUntouched == fs'.outExists = fs.outExists /\ fs'.out = fs.out

\* C14: when modem.recv returns success after at least one byte was written
\* to the stream, cmd_recv renames the ".part" file onto args.out and exits
\* with status 0; in every other case (refusal to overwrite without --force,
\* failure of the engine, nothing received) args.out stays as it was before
\* the command, no ".part" file is left and the exit status is not 0.
C14_InstallsExactlyOnSuccess ==
    [][ /\ (rcv.pc = "init" /\ rcv'.pc = "exit")
             => OutputUntouched /\ ~fs'.partExists /\ rcv'.exit # 0
        /\ rcv'.pc = "recv" => OutputUntouched
        /\ (rcv.pc = "recv" /\ rcv'.pc = "exit")
             => IF rcv.state = "Done" /\ fs.part # <<>>
                THEN /\ fs'.outExists
                     /\ fs'.out = fs.part
                     /\ ~fs'.partExists
                     /\ rcv'.exit = 0
                ELSE /\ OutputUntouched
                     /\ ~fs'.partExists
                     /\ rcv'.exit # 0 ]_vars

====
